---- MODULE Spec2Model ----
(***************************************************************************)
(* Model of package.py: download of a Debian Contents-<arch>.gz index,     *)
(* per-package file counting (parse_contents_file) and the top-N report    *)
(* (print_top_packages), driven by main.                                   *)
(*                                                                         *)
(* Text is modelled as tuples of one-character strings, so that strip,     *)
(* rsplit and split are computed character by character as CPython does.   *)
(* An optional value (None or v) is modelled as <<>> or <<v>>.             *)
(***************************************************************************)
EXTENDS Integers, Sequences, FiniteSets, TLC

VARIABLES
    pc,                  \* position of the run inside main
    argv,                \* the command line: arch, optional -n, optional --mirror
    env,                 \* optional value of the DEBIAN_MIRROR environment variable
    args,                \* the namespace returned by parse_arguments, <<>> before
    url,                 \* the URL requested by download_contents_file, <<>> before
    response,            \* what requests.get met: status, or the transport failure
    error,               \* the exception that ended the run, <<>> if none
    content,             \* decompressed text behind the downloaded bytes
    gzipped_file,        \* the io.BytesIO object: <<>> or <<[pos, closed]>>
    f,                   \* the gzip text stream of parse_contents_file
    package_file_count,  \* the defaultdict local to parse_contents_file
    result,              \* main's package_file_count: what the parser returned
    stdout,              \* lines written by print()
    stderr,              \* records written by logging, and tracebacks
    exit_code,           \* optional process exit status
    run,                 \* 1, or 2 when the same bytes are parsed a second time
    first                \* outcome of run 1, kept for the comparison with run 2

vars == <<pc, argv, env, args, url, response, error, content, gzipped_file, f,
          package_file_count, result, stdout, stderr, exit_code, run, first>>

(***************************************************************************)
(* Bounds                                                                  *)
(***************************************************************************)
MaxLineLen == 5      \* longest line enumerated exhaustively
AggPrefix == 1       \* lines already parsed before the enumerated line
RunLines == 2        \* lines of a downloaded stream in a run of main
TwiceLines == 3      \* lines of a stream that is parsed twice
MaxTop == 3          \* largest -n given on the command line
MaxCount == 2        \* largest small count in a mapping handed to the report
MaxPkgs == 3         \* most packages in a mapping handed to the report

(***************************************************************************)
(* Program constants                                                       *)
(***************************************************************************)
DEBIAN_MIRROR == "http://ftp.uk.debian.org/debian/dists/stable/main/"
DefaultTop == 10
FieldWidth == 30

(***************************************************************************)
(* Text                                                                    *)
(***************************************************************************)
Alphabet == {"a", "b", ",", " "}

IsSpace(c) == c \in {" ", "\t", "\n", "\r"}

Max(a, b) == IF a >= b THEN a ELSE b

Min(a, b) == IF a <= b THEN a ELSE b

\* str.strip(): drop the leading and the trailing whitespace.
RECURSIVE LStrip(_)
LStrip(s) == IF s = <<>> \/ ~IsSpace(Head(s)) THEN s ELSE LStrip(Tail(s))

RECURSIVE RStrip(_)
RStrip(s) ==
    IF s = <<>> \/ ~IsSpace(s[Len(s)]) THEN s ELSE RStrip(SubSeq(s, 1, Len(s) - 1))

Strip(s) == RStrip(LStrip(s))

\* Largest i <= j with s[i] whitespace (0 if none): the leftward scan over a token.
RECURSIVE ScanToken(_, _)
ScanToken(s, j) == IF j = 0 \/ IsSpace(s[j]) THEN j ELSE ScanToken(s, j - 1)

\* Largest i <= j with s[i] not whitespace (0 if none): the leftward scan over a gap.
RECURSIVE ScanSpace(_, _)
ScanSpace(s, j) == IF j = 0 \/ ~IsSpace(s[j]) THEN j ELSE ScanSpace(s, j - 1)

\* The text from the first whitespace character of s on.
RECURSIVE FromSpace(_)
FromSpace(s) == IF s = <<>> \/ IsSpace(Head(s)) THEN s ELSE FromSpace(Tail(s))

\* str.split(None, 1) in place of rsplit: the split at the first run of whitespace.
LSplit1(s) ==
    LET t == LStrip(s)
        rest == FromSpace(t)
        tail == LStrip(rest)
    IN  IF t = <<>> THEN <<>>
        ELSE IF tail = <<>> THEN <<SubSeq(t, 1, Len(t) - Len(rest))>>
        ELSE <<SubSeq(t, 1, Len(t) - Len(rest)), tail>>

\* str.rsplit(None, 1): at most one split, at the last run of whitespace,
\* scanning from the right; whitespace around the two parts is dropped.
RSplit1(s) ==
    LET e == ScanSpace(s, Len(s))
        b == ScanToken(s, e)
        r == ScanSpace(s, b)
    IN  IF e = 0 THEN <<>>
        ELSE IF r = 0 THEN <<SubSeq(s, b + 1, e)>>
        ELSE <<SubSeq(s, 1, r), SubSeq(s, b + 1, e)>>

\* str.split(','): cut at every comma, left to right; empty pieces are kept.
RECURSIVE SplitFrom(_, _, _)
SplitFrom(s, i, cur) ==
    IF i > Len(s) THEN <<cur>>
    ELSE IF s[i] = "," THEN <<cur>> \o SplitFrom(s, i + 1, <<>>)
    ELSE SplitFrom(s, i + 1, Append(cur, s[i]))

SplitComma(s) == SplitFrom(s, 1, <<>>)

(***************************************************************************)
(* The mapping: a dict keeps its keys in insertion order, so it is a       *)
(* sequence of <<package, count>> pairs with pairwise distinct packages.   *)
(***************************************************************************)
Keys(d) == {d[i][1] : i \in 1..Len(d)}

Count(d, p) == IF \E i \in 1..Len(d) : d[i][1] = p
               THEN (CHOOSE e \in {d[i] : i \in 1..Len(d)} : e[1] = p)[2]
               ELSE 0

\* The dict d with the count of its key p raised by one, in place.
RECURSIVE Bump(_, _)
Bump(d, p) ==
    IF d = <<>> THEN <<>>
    ELSE IF Head(d)[1] = p THEN <<<<p, Head(d)[2] + 1>>>> \o Tail(d)
    ELSE <<Head(d)>> \o Bump(Tail(d), p)

\* A dict that outlives the call: the counts of the previous parse are kept.
StaleCounts == package_file_count

\* defaultdict(int)
NewCounts == <<>>

\* The default 0 is inserted for a new key and the increment is lost.
IncrementFromZero(d, p) == IF p \in Keys(d) THEN Bump(d, p) ELSE Append(d, <<p, 0>>)

\* package_file_count[package] += 1 on a defaultdict(int)
Increment(d, p) == IF p \in Keys(d) THEN Bump(d, p) ELSE Append(d, <<p, 1>>)

\* for package in packages.split(','): package_file_count[package] += 1
RECURSIVE CountAll(_, _)
CountAll(d, pkgs) ==
    IF pkgs = <<>> THEN d ELSE CountAll(Increment(d, Head(pkgs)), Tail(pkgs))

\* The test on the number of parts only rejects the empty line.
ProcessLineLoneToken(d, line) ==
    LET parts == RSplit1(Strip(line))
    IN  IF Len(parts) = 0 THEN d ELSE CountAll(d, SplitComma(parts[Len(parts)]))

\* The body of the loop over the lines, for one line.
ProcessLine(d, line) ==
    LET parts == RSplit1(Strip(line))
    IN  IF Len(parts) # 2 THEN d ELSE CountAll(d, SplitComma(parts[2]))

(***************************************************************************)
(* The report                                                              *)
(***************************************************************************)
\* Ascending order: reverse=True forgotten.
RECURSIVE InsertAsc(_, _)
InsertAsc(s, x) ==
    IF s = <<>> THEN <<x>>
    ELSE IF Head(s)[2] <= x[2] THEN <<Head(s)>> \o InsertAsc(Tail(s), x)
    ELSE <<x>> \o s

\* Place x behind every element whose count is at least its own.
RECURSIVE InsertDesc(_, _)
InsertDesc(s, x) ==
    IF s = <<>> THEN <<x>>
    ELSE IF Head(s)[2] >= x[2] THEN <<Head(s)>> \o InsertDesc(Tail(s), x)
    ELSE <<x>> \o s

\* sorted(items, key=itemgetter(1), reverse=True): descending by count and
\* stable, so equal counts stay in the order of the dict.
RECURSIVE SortedFrom(_, _)
SortedFrom(acc, items) ==
    IF items = <<>> THEN acc ELSE SortedFrom(InsertDesc(acc, Head(items)), Tail(items))

SortedByCount(d) == SortedFrom(<<>>, d)

\* s[:n + 1]: one entry too many.
SliceOneMore(s, n) ==
    IF n + 1 >= 0 THEN SubSeq(s, 1, Min(n + 1, Len(s)))
    ELSE SubSeq(s, 1, Max(Len(s) + n + 1, 0))

\* s[:n] of a Python sequence: a negative n counts from the end.
Slice(s, n) ==
    IF n >= 0 THEN SubSeq(s, 1, Min(n, Len(s)))
    ELSE SubSeq(s, 1, Max(Len(s) + n, 0))

\* format(pkg, '30'): left-justified, padded with spaces up to the width.
RECURSIVE LJust(_, _)
LJust(s, w) == IF Len(s) >= w THEN s ELSE LJust(Append(s, " "), w)

\* f"{pkg:30} {count}": the padded name, one space, the count.
FormatLine(e) == <<LJust(e[1], FieldWidth) \o <<" ">>, e[2]>>

RECURSIVE FormatAll(_)
FormatAll(entries) ==
    IF entries = <<>> THEN <<>>
    ELSE <<FormatLine(Head(entries))>> \o FormatAll(Tail(entries))

\* The lines print_top_packages writes for the dict d and top_n = n.
ReportLines(d, n) == FormatAll(Slice(SortedByCount(d), n))

(***************************************************************************)
(* Exceptions                                                              *)
(***************************************************************************)
\* The base class of each exception class the run can meet.
Parent(cls) ==
    CASE cls = "HTTPError" -> "RequestException"
      [] cls = "ConnectionError" -> "RequestException"
      [] cls = "Timeout" -> "RequestException"
      [] cls = "RequestException" -> "OSError"
      [] cls = "BadGzipFile" -> "OSError"
      [] cls = "OSError" -> "Exception"
      [] cls = "EOFError" -> "Exception"
      [] cls = "zlib.error" -> "Exception"
      [] cls = "DownloadError" -> "Exception"
      [] OTHER -> "BaseException"

RECURSIVE IsInstance(_, _)
IsInstance(cls, base) ==
    \/ cls = base
    \/ cls \notin {"BaseException", "none"} /\ IsInstance(Parent(cls), base)

\* What requests.get, raise_for_status and response.content raise for a response.
RequestsRaises(resp) ==
    IF resp.exc # "none" THEN resp.exc
    ELSE IF resp.status >= 400 /\ resp.status < 600 THEN "HTTPError"
    ELSE "none"

\* The except clauses in the other order: RequestException is tried first.
DownloadExceptSwapped(exc) ==
    IF IsInstance(exc, "RequestException")
    THEN [cls |-> "DownloadError", msg |-> "Network error"]
    ELSE IF IsInstance(exc, "HTTPError")
         THEN [cls |-> "DownloadError", msg |-> "HTTP error"]
    ELSE [cls |-> exc, msg |-> "uncaught"]

\* The except clauses of download_contents_file, in their order.
DownloadExcept(exc) ==
    IF IsInstance(exc, "HTTPError") THEN [cls |-> "DownloadError", msg |-> "HTTP error"]
    ELSE IF IsInstance(exc, "RequestException")
         THEN [cls |-> "DownloadError", msg |-> "Network error"]
    ELSE [cls |-> exc, msg |-> "uncaught"]

\* The except clause of parse_contents_file: TRUE if it catches the exception.
ParseCatches(exc) == IsInstance(exc, "OSError")

\* The except clause of main around the download.
MainCatches(exc) == IsInstance(exc, "DownloadError")

\* The except clause logs an OSError and falls through to the return.
OnReadErrorReturns(exc, d) ==
    IF ParseCatches(exc)
    THEN [log |-> "ERROR: Error reading gzip file", exit |-> <<>>, returned |-> <<d>>]
    ELSE [log |-> "Traceback", exit |-> <<1>>, returned |-> <<>>]

\* What a read failure does to parse_contents_file, d being the dict so far:
\* an OSError is logged and sys.exit(1) ends the run; any other exception
\* leaves main uncaught, and the interpreter prints the traceback and exits
\* with status 1. Nothing is returned to the caller either way.
OnReadError(exc, d) ==
    IF ParseCatches(exc)
    THEN [log |-> "ERROR: Error reading gzip file", exit |-> <<1>>, returned |-> <<>>]
    ELSE [log |-> "Traceback", exit |-> <<1>>, returned |-> <<>>]

(***************************************************************************)
(* Inputs                                                                  *)
(***************************************************************************)
Opt(S) == {<<>>} \cup {<<v>> : v \in S}

\* The sequences over S of length at most n.
RECURSIVE SeqsUpTo(_, _)
SeqsUpTo(S, n) ==
    IF n <= 0 THEN {<<>>}
    ELSE LET shorter == SeqsUpTo(S, n - 1)
         IN  shorter \cup {Append(q, x) : q \in shorter, x \in S}

Archs == {"amd64", "arm64"}

Mirrors == {"http://mirror.example/debian/"}

EnvMirrors == {"http://env.example/debian/"}

TopNs == (-1)..MaxTop

Argvs == [arch : Archs, top : Opt(TopNs), mirror : Opt(Mirrors)]

Responses ==
    {[exc |-> "none", status |-> s] : s \in {200, 404, 500}}
    \cup {[exc |-> e, status |-> 0] : e \in {"ConnectionError", "Timeout"}}

NoResponse == [exc |-> "none", status |-> 0]

StreamEnds == {"eof", "BadGzipFile", "EOFError", "zlib.error"}

\* Lines of a Contents file: blank, a lone token, one owner, a path with a
\* blank and two owners, an empty owner between commas, blanks around the line.
SampleLines == {
    <<>>,
    <<"a">>,
    <<"a", " ", "a">>,
    <<"a", " ", "b", " ", "a", ",", "b">>,
    <<"a", " ", ",", "a", ",">>,
    <<" ", "a", " ", " ", "b", ",", " ">> }

AllLines == SeqsUpTo(Alphabet, MaxLineLen)

NoContent == [lines |-> <<>>, end |-> "eof"]

RunStreams == [lines : SeqsUpTo(SampleLines, RunLines), end : StreamEnds]

\* Lines parsed ahead of an enumerated one: a lone token, one owner, two owners.
PrefixLines == {
    <<"a">>,
    <<"a", " ", "a">>,
    <<"a", " ", "b", " ", "a", ",", "b">> }

AggStreams ==
    {[lines |-> Append(p, l), end |-> "eof"] :
        p \in SeqsUpTo(PrefixLines, AggPrefix), l \in AllLines}

TwiceStreams == [lines : SeqsUpTo(SampleLines, TwiceLines), end : StreamEnds]

PkgList == << <<"a">>, <<"b">>, <<>>, <<"a", "b">>, <<"b", "a">> >>

PkgNames == {PkgList[i] : i \in 1..Min(MaxPkgs, Len(PkgList))}

Counts == (1..MaxCount) \cup {500}

\* Every dict over PkgNames: distinct keys in any insertion order.
Mappings ==
    {d \in SeqsUpTo(PkgNames \X Counts, Cardinality(PkgNames)) :
        \A i, j \in 1..Len(d) : d[i][1] = d[j][1] => i = j}

ReportNs == (-2)..(MaxTop + 1)

(***************************************************************************)
(* The run                                                                 *)
(***************************************************************************)
\* io.BytesIO(response.content): a new buffer, positioned at its start.
FreshBuffer == [pos |-> 0, closed |-> FALSE]

\* f"{mirror_base}Contents-{arch}.gz"
Url(arch, mirror_base) == <<mirror_base, "Contents-", arch, ".gz">>

\* The mirror base main hands to download_contents_file.
MainMirror == DEBIAN_MIRROR

Init ==
    /\ pc = "start"
    /\ argv \in Argvs
    /\ env \in Opt(EnvMirrors)
    /\ args = <<>>
    /\ url = <<>>
    /\ response = NoResponse
    /\ error = <<>>
    /\ content = NoContent
    /\ gzipped_file = <<>>
    /\ f = "none"
    /\ package_file_count = <<>>
    /\ result = <<>>
    /\ stdout = <<>>
    /\ stderr = <<>>
    /\ exit_code = <<>>
    /\ run = 1
    /\ first = <<>>

\* parse_arguments: -n defaults to 10, --mirror to the environment variable.
parse_arguments ==
    /\ pc = "start"
    /\ args' = <<[arch |-> argv.arch,
                  top |-> IF argv.top = <<>> THEN DefaultTop ELSE argv.top[1],
                  mirror |-> IF argv.mirror # <<>> THEN argv.mirror ELSE env]>>
    /\ pc' = "download"
    /\ UNCHANGED <<argv, env, url, response, error, content, gzipped_file, f,
                   package_file_count, result, stdout, stderr, exit_code, run, first>>

\* download_contents_file returns the buffered body.
download_ok(resp, c) ==
    /\ pc = "download"
    /\ RequestsRaises(resp) = "none"
    /\ url' = Url(args[1].arch, MainMirror)
    /\ response' = resp
    /\ content' = c
    /\ gzipped_file' = <<FreshBuffer>>
    /\ stderr' = Append(stderr, "INFO: Downloading")
    /\ pc' = "parse"
    /\ UNCHANGED <<argv, env, args, error, f, package_file_count, result, stdout,
                   exit_code, run, first>>

\* download_contents_file raises; main logs the error and exits.
download_failed(resp) ==
    /\ pc = "download"
    /\ RequestsRaises(resp) # "none"
    /\ url' = Url(args[1].arch, MainMirror)
    /\ response' = resp
    /\ LET e == DownloadExcept(RequestsRaises(resp))
           caught == MainCatches(e.cls)
       IN  /\ error' = <<e>>
           /\ stderr' = stderr \o <<"INFO: Downloading",
                                    IF caught THEN "ERROR: " \o e.msg ELSE "Traceback">>
           /\ exit_code' = <<1>>   \* sys.exit(1), or the uncaught exception
    /\ pc' = "exited"
    /\ UNCHANGED <<argv, env, args, content, gzipped_file, f, package_file_count,
                   result, stdout, run, first>>

\* parse_contents_file up to the loop: a new dict, gzip.open over the buffer.
parse_open ==
    /\ pc = "parse"
    /\ package_file_count' = NewCounts
    /\ f' = "open"
    /\ pc' = "parse_loop"
    /\ UNCHANGED <<argv, env, args, url, response, error, content, gzipped_file,
                   result, stdout, stderr, exit_code, run, first>>

\* One iteration of 'for line in f'.
read_line ==
    /\ pc = "parse_loop"
    /\ gzipped_file[1].pos < Len(content.lines)
    /\ package_file_count' =
           ProcessLine(package_file_count, content.lines[gzipped_file[1].pos + 1])
    /\ gzipped_file' = <<[gzipped_file[1] EXCEPT !.pos = @ + 1]>>
    /\ UNCHANGED <<pc, argv, env, args, url, response, error, content, f, result,
                   stdout, stderr, exit_code, run, first>>

\* The stream is exhausted: the with block closes f, the dict is returned.
read_eof ==
    /\ pc = "parse_loop"
    /\ gzipped_file[1].pos >= Len(content.lines)
    /\ content.end = "eof"
    /\ f' = "closed"
    /\ result' = <<package_file_count>>
    /\ pc' = "report"
    /\ UNCHANGED <<argv, env, args, url, response, error, content, gzipped_file,
                   package_file_count, stdout, stderr, exit_code, run, first>>

\* Reading raises: the with block closes f, then the except clause decides.
read_error ==
    /\ pc = "parse_loop"
    /\ gzipped_file[1].pos >= Len(content.lines)
    /\ content.end # "eof"
    /\ f' = "closed"
    /\ error' = <<[cls |-> content.end, msg |-> "Error reading gzip file"]>>
    /\ LET r == OnReadError(content.end, package_file_count)
       IN  /\ stderr' = Append(stderr, r.log)
           /\ exit_code' = r.exit
           /\ result' = r.returned
           /\ pc' = IF r.exit = <<>> THEN "report" ELSE "exited"
    /\ UNCHANGED <<argv, env, args, url, response, content, gzipped_file,
                   package_file_count, stdout, run, first>>

\* print_top_packages, then main returns.
print_top_packages ==
    /\ pc = "report"
    /\ stderr' = Append(stderr, "INFO: Top")
    /\ stdout' = stdout \o ReportLines(result[1], args[1].top)
    /\ exit_code' = <<0>>
    /\ pc' = "exited"
    /\ UNCHANGED <<argv, env, args, url, response, error, content, gzipped_file, f,
                   package_file_count, result, run, first>>

\* The same bytes are handed to parse_contents_file and print_top_packages
\* a second time, in a new buffer.
parse_again ==
    /\ pc = "exited"
    /\ run = 1
    /\ first' = <<[result |-> result, stdout |-> stdout, exit_code |-> exit_code]>>
    /\ run' = 2
    /\ gzipped_file' = <<FreshBuffer>>
    /\ f' = "none"
    /\ result' = <<>>
    /\ error' = <<>>
    /\ stdout' = <<>>
    /\ stderr' = <<>>
    /\ exit_code' = <<>>
    /\ pc' = "parse"
    /\ UNCHANGED <<argv, env, args, url, response, content, package_file_count>>

Next ==
    \/ parse_arguments
    \/ \E c \in RunStreams : download_ok([exc |-> "none", status |-> 200], c)
    \/ \E resp \in Responses : download_failed(resp)
    \/ parse_open
    \/ read_line
    \/ read_eof
    \/ read_error
    \/ print_top_packages

Spec == Init /\ [][Next]_vars

\* The state in which main calls parse_contents_file on a downloaded buffer.
Downloaded(c, n) ==
    /\ pc = "parse"
    /\ argv = [arch |-> "amd64", top |-> <<n>>, mirror |-> <<>>]
    /\ env = <<>>
    /\ args = <<[arch |-> "amd64", top |-> n, mirror |-> <<>>]>>
    /\ url = Url("amd64", DEBIAN_MIRROR)
    /\ response = [exc |-> "none", status |-> 200]
    /\ error = <<>>
    /\ content = c
    /\ gzipped_file = <<[pos |-> 0, closed |-> FALSE]>>
    /\ f = "none"
    /\ package_file_count = <<>>
    /\ result = <<>>
    /\ stdout = <<>>
    /\ stderr = <<"INFO: Downloading">>
    /\ exit_code = <<>>
    /\ run = 1
    /\ first = <<>>

\* The aggregator alone, over every short line after a parsed prefix.
InitAgg == \E c \in AggStreams : Downloaded(c, DefaultTop)

NextAgg == parse_open \/ read_line \/ read_eof

SpecAgg == InitAgg /\ [][NextAgg]_vars

\* The same stream parsed and reported twice.
InitTwice == \E c \in TwiceStreams, n \in TopNs : Downloaded(c, n)

NextTwice ==
    \/ parse_open
    \/ read_line
    \/ read_eof
    \/ read_error
    \/ print_top_packages
    \/ parse_again

SpecTwice == InitTwice /\ [][NextTwice]_vars

\* The reporter alone, over every small mapping and every N.
InitReport ==
    \E d \in Mappings, n \in ReportNs :
        /\ pc = "report"
        /\ argv = [arch |-> "amd64", top |-> <<n>>, mirror |-> <<>>]
        /\ env = <<>>
        /\ args = <<[arch |-> "amd64", top |-> n, mirror |-> <<>>]>>
        /\ url = Url("amd64", DEBIAN_MIRROR)
        /\ response = [exc |-> "none", status |-> 200]
        /\ error = <<>>
        /\ content = NoContent
        /\ gzipped_file = <<[pos |-> 0, closed |-> FALSE]>>
        /\ f = "closed"
        /\ package_file_count = d
        /\ result = <<d>>
        /\ stdout = <<>>
        /\ stderr = <<"INFO: Downloading">>
        /\ exit_code = <<>>
        /\ run = 1
        /\ first = <<>>

NextReport == print_top_packages

SpecReport == InitReport /\ [][NextReport]_vars

(***************************************************************************)
(* Properties.  The text of a line is described here by position, not by   *)
(* the scans above: a part starts at a character that is not whitespace    *)
(* and follows whitespace or the start of the line.                        *)
(***************************************************************************)
PartStarts(s) == {i \in 1..Len(s) : ~IsSpace(s[i]) /\ (i = 1 \/ IsSpace(s[i - 1]))}

NumParts(s) == Cardinality(PartStarts(s))

\* The last whitespace-delimited token of a line that has one.
LastToken(s) ==
    LET b == CHOOSE i \in PartStarts(s) : \A j \in PartStarts(s) : j <= i
        e == CHOOSE i \in b..Len(s) :
                 /\ \A k \in b..i : ~IsSpace(s[k])
                 /\ (i = Len(s) \/ IsSpace(s[i + 1]))
    IN  SubSeq(s, b, e)

\* Positions of o at which a comma-separated piece starts.
PieceStarts(o) == {i \in 1..(Len(o) + 1) : i = 1 \/ o[i - 1] = ","}

\* The piece that starts at i: up to the next comma or the end.
PieceAt(o, i) ==
    LET j == CHOOSE k \in i..(Len(o) + 1) :
                 /\ (k = Len(o) + 1 \/ o[k] = ",")
                 /\ \A m \in i..(k - 1) : o[m] # ","
    IN  SubSeq(o, i, j - 1)

Pieces(o) == {PieceAt(o, i) : i \in PieceStarts(o)}

\* How many times package p occurs in the owners field o.
Occurrences(p, o) == Cardinality({i \in PieceStarts(o) : PieceAt(o, i) = p})

RECURSIVE SumCounts(_)
SumCounts(d) == IF d = <<>> THEN 0 ELSE Head(d)[2] + SumCounts(Tail(d))

\* Pieces of the owners fields of the accepted lines among the first k.
RECURSIVE PiecesFed(_, _)
PiecesFed(lines, k) ==
    IF k = 0 THEN 0
    ELSE PiecesFed(lines, k - 1)
         + (IF NumParts(lines[k]) >= 2
            THEN Cardinality(PieceStarts(LastToken(lines[k]))) ELSE 0)

Pos == gzipped_file[1].pos

Reading == pc = "parse_loop" /\ Pos < Len(content.lines)

CurLine == content.lines[Pos + 1]

\* C1: a line with a path and an owners field (the last token; the path may
\* contain whitespace) raises the count of every package by the number of
\* its occurrences in the comma-split owners, and changes no other count.
C1_OwnersCounted ==
    [][(Reading /\ NumParts(CurLine) >= 2) =>
         \A p \in Keys(package_file_count) \cup Keys(package_file_count')
                  \cup Pieces(LastToken(CurLine)) :
             Count(package_file_count', p)
                 = Count(package_file_count, p) + Occurrences(p, LastToken(CurLine))]_vars

\* A line with a package twice in its owners has just been counted, next to
\* a package of an earlier line that it does not name.
C1_Witness ==
    /\ pc = "parse_loop"
    /\ Pos = 2
    /\ NumParts(content.lines[2]) >= 2
    /\ \E p \in Keys(package_file_count) :
           /\ Occurrences(p, LastToken(content.lines[2])) = 2
           /\ Count(package_file_count, p) >= 2
    /\ \E q \in Keys(package_file_count) :
           /\ Occurrences(q, LastToken(content.lines[2])) = 0
           /\ Count(package_file_count, q) = 1

\* C2: a line with fewer than two whitespace-separated parts leaves the
\* mapping as it was, raises nothing, and the loop goes on to the next line.
C2_ShortLineSkipped ==
    [][(Reading /\ NumParts(CurLine) < 2) =>
         /\ package_file_count' = package_file_count
         /\ pc' = "parse_loop"
         /\ gzipped_file'[1].pos = Pos + 1
         /\ error' = <<>>
         /\ exit_code' = <<>>
         /\ stderr' = stderr]_vars

\* A lone token or a blank line has just been skipped over a mapping that
\* an earlier line filled.
C2_Witness ==
    /\ pc = "parse_loop"
    /\ Pos = 2
    /\ NumParts(content.lines[2]) < 2
    /\ NumParts(content.lines[1]) >= 2
    /\ package_file_count # <<>>
    /\ error = <<>>

\* C10: after any prefix of the lines every key has a count of at least 1,
\* every piece of an accepted owners field (the empty piece too) is a key,
\* and the counts add up to the number of pieces of the accepted lines.
C10_CountsInvariant ==
    pc \in {"parse_loop", "report"} =>
        /\ \A i \in 1..Len(package_file_count) : package_file_count[i][2] >= 1
        /\ \A k \in 1..Pos :
               NumParts(content.lines[k]) >= 2 =>
                   Pieces(LastToken(content.lines[k])) \subseteq Keys(package_file_count)
        /\ SumCounts(package_file_count) = PiecesFed(content.lines, Pos)

\* Two lines are parsed, and the empty package name is one of the keys.
C10_Witness ==
    /\ pc = "parse_loop"
    /\ Pos = 2
    /\ <<>> \in Keys(package_file_count)
    /\ Count(package_file_count, <<>>) >= 1
    /\ SumCounts(package_file_count) >= 3

\* The request met an HTTP error status, or failed below HTTP.
HttpStatusFailure == response.exc = "none" /\ response.status \in 400..599

TransportFailure == response.exc # "none"

DownloadSucceeded == response.exc = "none" /\ response.status = 200

\* Number of entries of the first n of a list of length len.
FirstN(n, len) == IF n >= 0 THEN Min(n, len) ELSE Max(len + n, 0)

\* The package name and the count shown by a line of the report.
Shown(l) == <<Strip(l[1]), l[2]>>

C4_MirrorPrecedence ==
    url # <<>> =>
        url[1] = (IF argv.mirror # <<>> THEN argv.mirror[1]
                  ELSE IF env # <<>> THEN env[1]
                  ELSE DEBIAN_MIRROR)

\* What the report shows, but for the number of lines: counts never
\* increase down the report, every line is an entry of the mapping padded
\* to the field width, no package is shown twice, and no package left out
\* has a larger count than one that is shown.
ReportIsTop(d, out) ==
    /\ \A i \in 1..(Len(out) - 1) : out[i][2] >= out[i + 1][2]
    /\ \A i \in 1..Len(out) :
           /\ Shown(out[i])[1] \in Keys(d)
           /\ Count(d, Shown(out[i])[1]) = out[i][2]
           /\ Len(out[i][1]) = Max(FieldWidth, Len(Shown(out[i])[1])) + 1
    /\ \A i, j \in 1..Len(out) : Shown(out[i])[1] = Shown(out[j])[1] => i = j
    /\ \A p \in Keys(d) \ {Shown(out[i])[1] : i \in 1..Len(out)} :
           \A i \in 1..Len(out) : Count(d, p) <= out[i][2]

\* C5 as stated: for any integer N the report has min(N, number of
\* packages) lines, in non-increasing order of count, taken from the mapping.
C5_Original ==
    pc = "exited" =>
        /\ Len(stdout) = Min(args[1].top, Len(result[1]))
        /\ ReportIsTop(result[1], stdout)

\* C5: for N >= 0 the report has min(N, number of packages) lines, for
\* N < 0 it has max(number of packages + N, 0) lines; the lines are in
\* non-increasing order of count and are entries of the mapping, and no
\* package left out has a larger count than one shown.
C5_TopN ==
    pc = "exited" =>
        /\ Len(stdout) = FirstN(args[1].top, Len(result[1]))
        /\ ReportIsTop(result[1], stdout)

\* N exceeds the number of packages and all of them are shown.
C5_Witness ==
    /\ pc = "exited"
    /\ Len(result[1]) = 3
    /\ args[1].top > 3
    /\ Len(stdout) = 3
    /\ stdout[1][2] > stdout[3][2]

\* Two optional mappings with the same keys and the same count for each.
SameMapping(r1, r2) ==
    /\ (r1 = <<>>) <=> (r2 = <<>>)
    /\ r1 # <<>> =>
           /\ Keys(r1[1]) = Keys(r2[1])
           /\ \A p \in Keys(r1[1]) : Count(r1[1], p) = Count(r2[1], p)

\* C6: parsing the same stream a second time returns the same mapping.
C6_ReparseSame ==
    (run = 2 /\ pc \in {"report", "exited"}) => SameMapping(first[1].result, result)

\* The second parse of a stream with several packages has returned.
C6_Witness ==
    /\ run = 2
    /\ pc = "report"
    /\ result # <<>>
    /\ Len(result[1]) >= 2
    /\ SumCounts(result[1]) >= 3

\* Packages of d with a count above c, and with the count c.
Above(d, c) == {p \in Keys(d) : Count(d, p) > c}

Tied(d, c) == {p \in Keys(d) : Count(d, p) = c}

ShownNames(out) == {Shown(out[i])[1] : i \in 1..Len(out)}

\* C7: when N cuts through a group of packages with equal counts, the
\* packages above the group are shown with just as many of the group as
\* fill the N lines, and a second run over the same input writes the same
\* lines in the same order.
C7_TieDeterministic ==
    (run = 2 /\ pc = "exited") =>
        /\ stdout = first[1].stdout
        /\ result # <<>> =>
               \A i \in 1..Len(result[1]) :
                   LET d == result[1]
                       c == d[i][2]
                       n == args[1].top
                   IN  (Cardinality(Above(d, c)) < n
                        /\ n < Cardinality(Above(d, c)) + Cardinality(Tied(d, c))) =>
                           /\ Above(d, c) \subseteq ShownNames(stdout)
                           /\ Cardinality(ShownNames(stdout) \cap Tied(d, c))
                                  = n - Cardinality(Above(d, c))

\* Second run done: one package with two files, two with one, N = 2.
C7_Witness ==
    /\ run = 2
    /\ pc = "exited"
    /\ result # <<>>
    /\ args[1].top = 2
    /\ Len(result[1]) = 3
    /\ \E p \in Keys(result[1]) :
           /\ Count(result[1], p) = 2
           /\ \A q \in Keys(result[1]) \ {p} : Count(result[1], q) = 1
    /\ Len(stdout) = 2
    /\ stdout[1][2] = 2
    /\ stdout[2][2] = 1

\* C8: an HTTP error status ends in a DownloadError of the HTTP kind, a
\* transport failure in one of the network kind, nothing else escapes, and
\* main exits with code 1 before the parser starts.
C8_DownloadErrors ==
    (pc = "exited" /\ ~DownloadSucceeded) =>
        /\ HttpStatusFailure => error = <<[cls |-> "DownloadError", msg |-> "HTTP error"]>>
        /\ TransportFailure =>
               error = <<[cls |-> "DownloadError", msg |-> "Network error"]>>
        /\ HttpStatusFailure \/ TransportFailure
        /\ exit_code = <<1>>
        /\ f = "none"
        /\ gzipped_file = <<>>
        /\ package_file_count = <<>>
        /\ result = <<>>
        /\ stdout = <<>>

\* A 404 has ended the run.
C8_Witness ==
    /\ pc = "exited"
    /\ response.status = 404
    /\ error # <<>>
    /\ error[1].msg = "HTTP error"
    /\ exit_code = <<1>>

\* C9: whenever a run that downloaded the file has ended, the byte buffer
\* and the decompression stream over it are both closed.
C9_ResourcesClosed ==
    (pc = "exited" /\ gzipped_file # <<>>) =>
        /\ f = "closed"
        /\ gzipped_file[1].closed

====
